---- MODULE Spec2Model ----
(***************************************************************************)
(* State-machine model of the dual-stack enablement scripts:               *)
(*   src/vpc-subnet.py                        (VPC / subnet / egress)      *)
(*   src/enable-dualstack-private-instances.py (instance addresses)        *)
(*   src/elb.py                                (load balancers)            *)
(* The cloud control plane is the environment: its inventory is the state, *)
(* every mutating request the scripts issue is appended to `calls`.        *)
(***************************************************************************)
EXTENDS Integers, Sequences, FiniteSets, TLC

VARIABLES
    pc,           \* position of the running script ("idle" between runs)
    loc,          \* local variables of the function being executed
    calls,        \* mutating control-plane requests issued so far, in order
    runs,         \* number of invocations started
    vpcs,         \* VpcId -> Ipv6CidrBlockAssociationSet (sequence of blocks)
    subnets,      \* account's subnet listing, in listing order
    routeTables,  \* RouteTableId -> Routes (sequence of routes)
    eigws,        \* egress-only internet gateways, in listing order
    instances,    \* instances with their network interfaces
    addrs,        \* NetworkInterfaceId -> number of IPv6 addresses held
    albs          \* load balancers with their listeners

vars == <<pc, loc, calls, runs, vpcs, subnets, routeTables, eigws, instances, addrs, albs>>

cloud == <<vpcs, subnets, routeTables, eigws, instances, addrs, albs>>

(***************************************************************************)
(* Bounds of the model.                                                    *)
(***************************************************************************)
MaxRuns == 2
MaxSubnets == 3
MaxPreIndex == 2

(***************************************************************************)
(* IPv6 blocks: addr is the network address as 8 hextets, len the prefix   *)
(* length.  ipaddress.IPv6Network as used by vpc-subnet.py.                *)
(***************************************************************************)
Pow2(n) == 2 ^ n

Block(h1, h2, h3, h4, h5, h6, h7, h8, n) ==
    [addr |-> <<h1, h2, h3, h4, h5, h6, h7, h8>>, len |-> n]

\* int(network_address) + (i << s), hextet by hextet; the host bits of the
\* network address are zero, so no carry leaves the two hextets touched.
AddShifted(addr, i, s) ==
    LET q  == s \div 16
        v  == i * Pow2(s % 16)
        lo == v % 65536
        hi == v \div 65536
    IN [k \in 1..8 |-> IF k = 8 - q THEN addr[k] + lo
                       ELSE IF k = 8 - q - 1 THEN addr[k] + hi
                       ELSE addr[k]]

\* IPv6Network.subnets(new_prefix=p): a /128 network yields itself; otherwise
\* a new prefix shorter than the network's or longer than 128 raises ValueError.
SubnetsRaises(net, p) == net.len # 128 /\ (p < net.len \/ p > 128)

SubnetsCount(net, p) == IF net.len = 128 THEN 1 ELSE Pow2(p - net.len)

SubnetsAtOffByOne(net, p, i) ==
    IF net.len = 128 THEN net
    ELSE [addr |-> AddShifted(net.addr, i + 1, 128 - p), len |-> p]

SubnetsAt(net, p, i) ==
    IF net.len = 128 THEN net
    ELSE [addr |-> AddShifted(net.addr, i, 128 - p), len |-> p]

\* The first n bits of two addresses agree.
PrefixEq(x, y, n) ==
    \A k \in 1..8 :
        IF 16 * k <= n THEN x[k] = y[k]
        ELSE IF 16 * (k - 1) < n
             THEN x[k] \div Pow2(16 * k - n) = y[k] \div Pow2(16 * k - n)
             ELSE TRUE

\* b is a sub-range of a (IPv6Network.subnet_of).
SubnetOf(b, a) == b.len >= a.len /\ PrefixEq(a.addr, b.addr, a.len)

\* IPv6Network.overlaps for two CIDR blocks.
Overlaps(a, b) == SubnetOf(a, b) \/ SubnetOf(b, a)

(***************************************************************************)
(* Control-plane operations (the environment).                             *)
(***************************************************************************)
\* describe_subnets(Filters=[vpc-id]): the VPC's subnets, in listing order.
describe_subnets(vpc_id) == SelectSeq(subnets, LAMBDA s : s.vpc = vpc_id)

\* The provider refuses a subnet block that overlaps a sibling's block or is
\* not inside one of the VPC's blocks; a permissive endpoint records it.
SubnetCidrConflict(subnet_id, vpc_id, blk) ==
    \/ \E k \in 1..Len(subnets) :
          /\ subnets[k].vpc = vpc_id
          /\ subnets[k].id # subnet_id
          /\ \E j \in 1..Len(subnets[k].assoc) : Overlaps(subnets[k].assoc[j], blk)
    \/ ~\E j \in 1..Len(vpcs[vpc_id]) : SubnetOf(blk, vpcs[vpc_id][j])

\* An entry of `calls`: the request and how the provider answered it.
Ok(request) == [request |-> request, result |-> "ok"]

Failed(request, error) == [request |-> request, result |-> error]

AssociateSubnetCidrBlock(subnet_id, blk) ==
    [k \in 1..Len(subnets) |->
        IF subnets[k].id = subnet_id
        THEN [subnets[k] EXCEPT !.assoc = Append(@, blk)]
        ELSE subnets[k]]

(***************************************************************************)
(* Calls and returns.  Every frame of locals carries `exc` (the uncaught   *)
(* exception, "" while none) and `caller` (where to continue on return).   *)
(***************************************************************************)
None == "None"

\* The invoking script's own frame: the value the last call returned and the
\* values the calls before it returned.
TopFrame == [exc |-> "", ret |-> None, rets |-> <<>>]

\* The frame a new top-level call returns to: after a return the previous
\* result is kept, after an uncaught exception the frame is as it was.
TopCaller ==
    [pc |-> "returned",
     frame |-> IF pc = "raised" THEN loc.caller.frame
               ELSE IF pc = "returned" THEN [loc EXCEPT !.rets = Append(@, loc.ret)]
               ELSE loc]

\* An uncaught exception ends the script where it stands.
Raise(exc) ==
    /\ pc' = "raised"
    /\ loc' = [loc EXCEPT !.exc = exc]

Return(value) ==
    /\ pc' = loc.caller.pc
    /\ loc' = [loc.caller.frame EXCEPT !.ret = value]

Idle == pc \in {"idle", "returned", "raised"}

(***************************************************************************)
(* vpc-subnet.py: enable_ipv6_cidr_for_vpc(ec2, vpc_id)                    *)
(***************************************************************************)
C56 == Block(9728, 7960, 2748, 56832, 0, 0, 0, 0, 56)  \* 2600:1f18:abc:de00::/56
B56 == Block(8193, 3512, 4660, 0, 0, 0, 0, 0, 56)      \* 2001:db8:1234::/56

\* Blocks the provider hands out for AmazonProvidedIpv6CidrBlock=True.
AmazonPool == {B56, C56}

\* lines 26-28: describe the VPC, read its association set.
enable_begin(vpc_id, caller) ==
    /\ pc' = "enable_check"
    /\ loc' = [exc |-> "", caller |-> caller,
               vpc_id |-> vpc_id,
               ipv6_cidr_block_associations |-> vpcs[vpc_id]]

AlwaysLacksAssociations(frame) == TRUE

\* line 30: `not ipv6_cidr_block_associations`.
LacksAssociations(frame) == frame.ipv6_cidr_block_associations = <<>>

\* lines 38, 41: ipv6_cidr_block_associations[0]['Ipv6CidrBlock'].
FirstAssociation(associations) == associations[1]

\* lines 40-44: the VPC has a block already; return the first one.
enable_existing ==
    /\ pc = "enable_check"
    /\ ~LacksAssociations(loc)
    /\ Return(FirstAssociation(loc.ipv6_cidr_block_associations))
    /\ UNCHANGED <<calls, runs, cloud>>

\* line 32: request a provider-assigned block; the provider picks it, or
\* rejects the request (an uncaught ClientError).
enable_associate ==
    /\ pc = "enable_check"
    /\ LacksAssociations(loc)
    /\ LET request == [op |-> "associate_vpc_cidr_block", VpcId |-> loc.vpc_id]
       IN \/ \E blk \in AmazonPool :
                /\ calls' = Append(calls, Ok(request))
                /\ vpcs' = [vpcs EXCEPT ![loc.vpc_id] = Append(@, blk)]
                /\ pc' = "enable_refetch"
                /\ UNCHANGED loc
          \/ /\ calls' = Append(calls, Failed(request, "ClientError"))
             /\ Raise("ClientError")
             /\ UNCHANGED vpcs
    /\ UNCHANGED <<runs, subnets, routeTables, eigws, instances, addrs, albs>>

\* lines 34-39, 44: describe the VPC again and return the first block read.
enable_refetch ==
    /\ pc = "enable_refetch"
    /\ Return(FirstAssociation(vpcs[loc.vpc_id]))
    /\ UNCHANGED <<calls, runs, cloud>>

enable_ipv6_cidr_for_vpc == enable_existing \/ enable_associate \/ enable_refetch

(***************************************************************************)
(* vpc-subnet.py: assign_ipv6_cidr_to_subnets(ec2, vpc_id, ipv6_cidr_block) *)
(***************************************************************************)
SubnetBits == 8

\* lines 55-60: describe the VPC's subnets, parse the VPC block.
assign_begin(vpc_id, ipv6_cidr_block, caller) ==
    /\ pc' = "assign_loop"
    /\ loc' = [exc |-> "", caller |-> caller,
               vpc_id |-> vpc_id,
               subnets |-> describe_subnets(vpc_id),
               vpc_ipv6_network |-> ipv6_cidr_block,
               subnet_size |-> ipv6_cidr_block.len + SubnetBits,
               index |-> 0]

\* line 62: enumerate() pairs each subnet of the listing with its position.
SubnetIndex(frame) == frame.index

\* lines 66, 74-75: the subnet already has a block.
assign_skip ==
    /\ pc = "assign_loop"
    /\ loc.index < Len(loc.subnets)
    /\ loc.subnets[loc.index + 1].assoc # <<>>
    /\ loc' = [loc EXCEPT !.index = @ + 1]
    /\ UNCHANGED <<pc, calls, runs, cloud>>

\* line 68: subnets() raises, or the list has no element at `index`.
assign_raise ==
    /\ pc = "assign_loop"
    /\ loc.index < Len(loc.subnets)
    /\ loc.subnets[loc.index + 1].assoc = <<>>
    /\ \/ /\ SubnetsRaises(loc.vpc_ipv6_network, loc.subnet_size)
          /\ Raise("ValueError")
       \/ /\ ~SubnetsRaises(loc.vpc_ipv6_network, loc.subnet_size)
          /\ SubnetIndex(loc) >= SubnetsCount(loc.vpc_ipv6_network, loc.subnet_size)
          /\ Raise("IndexError")
    /\ UNCHANGED <<calls, runs, cloud>>

\* lines 68-73: pick the sub-block at `index` and associate it.
assign_associate ==
    /\ pc = "assign_loop"
    /\ loc.index < Len(loc.subnets)
    /\ loc.subnets[loc.index + 1].assoc = <<>>
    /\ ~SubnetsRaises(loc.vpc_ipv6_network, loc.subnet_size)
    /\ SubnetIndex(loc) < SubnetsCount(loc.vpc_ipv6_network, loc.subnet_size)
    /\ LET subnet_id == loc.subnets[loc.index + 1].id
           subnet_ipv6_network ==
               SubnetsAt(loc.vpc_ipv6_network, loc.subnet_size, SubnetIndex(loc))
           request == [op |-> "associate_subnet_cidr_block",
                       SubnetId |-> subnet_id,
                       Ipv6CidrBlock |-> subnet_ipv6_network]
       IN \/ /\ calls' = Append(calls, Ok(request))
             /\ subnets' = AssociateSubnetCidrBlock(subnet_id, subnet_ipv6_network)
             /\ loc' = [loc EXCEPT !.index = @ + 1]
             /\ UNCHANGED pc
          \/ /\ SubnetCidrConflict(subnet_id, loc.vpc_id, subnet_ipv6_network)
             /\ calls' = Append(calls, Failed(request, "ClientError"))
             /\ Raise("ClientError")
             /\ UNCHANGED subnets
    /\ UNCHANGED <<runs, vpcs, routeTables, eigws, instances, addrs, albs>>

\* the loop is exhausted: the function returns None.
assign_return ==
    /\ pc = "assign_loop"
    /\ loc.index >= Len(loc.subnets)
    /\ Return(None)
    /\ UNCHANGED <<calls, runs, cloud>>

assign_ipv6_cidr_to_subnets ==
    assign_skip \/ assign_raise \/ assign_associate \/ assign_return

(***************************************************************************)
(* vpc-subnet.py: create_and_attach_egress_only_igw(ec2, vpc_id)           *)
(***************************************************************************)
\* A route is a record with DestinationCidrBlock or DestinationIpv6CidrBlock
\* and the keys of its target; GatewayId is a sequence of characters.
IgwPrefix == <<"i", "g", "w", "-">>

\* sub in s (str containment)
Contains(s, sub) ==
    \E k \in 1..(Len(s) - Len(sub) + 1) : SubSeq(s, k, k + Len(sub) - 1) = sub

Includes(s, prefix) == Contains(s, prefix)

\* str.startswith
StartsWith(s, prefix) ==
    Len(s) >= Len(prefix) /\ SubSeq(s, 1, Len(prefix)) = prefix

\* route.get('GatewayId', '')
GatewayIdOf(route) == IF "GatewayId" \in DOMAIN route THEN route.GatewayId ELSE <<>>

\* lines 117, 78 (instances script): any(... startswith('igw-') for route in Routes)
igw_route(route_table) ==
    \E r \in 1..Len(route_table) : StartsWith(GatewayIdOf(route_table[r]), IgwPrefix)

\* describe_route_tables(Filters=[association.subnet-id]): the route table
\* explicitly associated with the subnet, if any.
describe_route_tables(subnet) ==
    IF subnet.rt = None THEN <<>>
    ELSE <<[RouteTableId |-> subnet.rt, Routes |-> routeTables[subnet.rt]]>>

\* Gateway ids are "eigw-<n>"; None and '' (both falsy) are the empty id.
EigwId(n) == <<"eigw-", n>>

NoEigwId == <<>>

FirstEigwListed(listing, vpc_id) ==
    IF listing = <<>> THEN NoEigwId ELSE listing[1].id

\* lines 89-94: the first listed gateway with an attachment to the VPC.
FindEigw(listing, vpc_id) ==
    IF \E g \in 1..Len(listing) : vpc_id \in listing[g].att
    THEN listing[CHOOSE g \in 1..Len(listing) :
                    /\ vpc_id \in listing[g].att
                    /\ \A h \in 1..(g - 1) : vpc_id \notin listing[h].att].id
    ELSE NoEigwId

\* lines 86-94: list the gateways, look for one attached to the VPC.
egress_begin(vpc_id, caller) ==
    /\ pc' = "egress_gateway"
    /\ loc' = [exc |-> "", caller |-> caller,
               vpc_id |-> vpc_id,
               egress_only_igw_id |-> FindEigw(eigws, vpc_id)]

\* The provider names a new gateway with an unused id; the gateways and the
\* routes of the initial inventory use ids below FirstNewEigwId.
FirstNewEigwId == 10

NewEigwId == EigwId(FirstNewEigwId + Len(eigws))

EgressLocals(id) ==
    [exc |-> "", caller |-> loc.caller, vpc_id |-> loc.vpc_id,
     egress_only_igw_id |-> id,
     subnets |-> describe_subnets(loc.vpc_id),
     i |-> 0, private_subnets |-> <<>>, route_tables |-> <<>>, j |-> 0]

\* lines 96-100, 105-109: none found, create one; then list the subnets.
egress_create ==
    /\ pc = "egress_gateway"
    /\ loc.egress_only_igw_id = NoEigwId
    /\ calls' = Append(calls, Ok([op |-> "create_egress_only_internet_gateway",
                                  VpcId |-> loc.vpc_id]))
    /\ eigws' = Append(eigws, [id |-> NewEigwId, att |-> {loc.vpc_id}])
    /\ pc' = "egress_classify"
    /\ loc' = EgressLocals(NewEigwId)
    /\ UNCHANGED <<runs, vpcs, subnets, routeTables, instances, addrs, albs>>

\* lines 101-102, 105-109: reuse the one found; then list the subnets.
egress_reuse ==
    /\ pc = "egress_gateway"
    /\ loc.egress_only_igw_id # NoEigwId
    /\ pc' = "egress_classify"
    /\ loc' = EgressLocals(loc.egress_only_igw_id)
    /\ UNCHANGED <<calls, runs, cloud>>

\* lines 111-114: no route table is returned for the subnet.
egress_unclassifiable ==
    /\ pc = "egress_classify"
    /\ loc.i < Len(loc.subnets)
    /\ describe_route_tables(loc.subnets[loc.i + 1]) = <<>>
    /\ loc' = [loc EXCEPT !.i = @ + 1]
    /\ UNCHANGED <<pc, calls, runs, cloud>>

\* lines 115-118: the route table has an internet-gateway route.
egress_public ==
    /\ pc = "egress_classify"
    /\ loc.i < Len(loc.subnets)
    /\ describe_route_tables(loc.subnets[loc.i + 1]) # <<>>
    /\ igw_route(describe_route_tables(loc.subnets[loc.i + 1])[1].Routes)
    /\ loc' = [loc EXCEPT !.i = @ + 1]
    /\ UNCHANGED <<pc, calls, runs, cloud>>

\* lines 115-120: no internet-gateway route: the subnet is private.
egress_private ==
    /\ pc = "egress_classify"
    /\ loc.i < Len(loc.subnets)
    /\ describe_route_tables(loc.subnets[loc.i + 1]) # <<>>
    /\ LET route_table == describe_route_tables(loc.subnets[loc.i + 1])[1]
       IN /\ ~igw_route(route_table.Routes)
          /\ loc' = [loc EXCEPT
                       !.i = @ + 1,
                       !.private_subnets = Append(@, loc.subnets[loc.i + 1].id),
                       !.route_tables = Append(@, route_table.RouteTableId)]
    /\ UNCHANGED <<pc, calls, runs, cloud>>

\* line 122: the subnets are classified.
egress_classified ==
    /\ pc = "egress_classify"
    /\ loc.i >= Len(loc.subnets)
    /\ pc' = "egress_routes"
    /\ UNCHANGED <<loc, calls, runs, cloud>>

DefaultIpv6 == "::/0"

\* The provider rejects a route whose destination the table already routes.
RouteAlreadyExists(route_table_id, dest) ==
    \E r \in 1..Len(routeTables[route_table_id]) :
        /\ "DestinationIpv6CidrBlock" \in DOMAIN routeTables[route_table_id][r]
        /\ routeTables[route_table_id][r].DestinationIpv6CidrBlock = dest

CreateRouteCall(route_table_id, id) ==
    [op |-> "create_route", RouteTableId |-> route_table_id,
     DestinationIpv6CidrBlock |-> DefaultIpv6, EgressOnlyInternetGatewayId |-> id]

\* lines 125-128: create_route succeeds.
egress_route_added ==
    /\ pc = "egress_routes"
    /\ loc.j < Len(loc.route_tables)
    /\ LET route_table_id == loc.route_tables[loc.j + 1]
       IN /\ ~RouteAlreadyExists(route_table_id, DefaultIpv6)
          /\ calls' = Append(calls, Ok(CreateRouteCall(route_table_id,
                                                       loc.egress_only_igw_id)))
          /\ routeTables' = [routeTables EXCEPT ![route_table_id] =
                Append(@, [DestinationIpv6CidrBlock |-> DefaultIpv6,
                           EgressOnlyInternetGatewayId |-> loc.egress_only_igw_id])]
    /\ loc' = [loc EXCEPT !.j = @ + 1]
    /\ UNCHANGED <<pc, runs, vpcs, subnets, eigws, instances, addrs, albs>>

\* create_route raises and nothing catches it.
egress_route_uncaught ==
    /\ pc = "egress_routes"
    /\ loc.j < Len(loc.route_tables)
    /\ LET route_table_id == loc.route_tables[loc.j + 1]
       IN /\ RouteAlreadyExists(route_table_id, DefaultIpv6)
          /\ calls' = Append(calls, Failed(CreateRouteCall(route_table_id,
                                                           loc.egress_only_igw_id),
                                           "RouteAlreadyExists"))
    /\ Raise("ClientError")
    /\ UNCHANGED <<runs, cloud>>

\* lines 125-130: create_route raises; the exception is caught and printed.
egress_route_failed ==
    /\ pc = "egress_routes"
    /\ loc.j < Len(loc.route_tables)
    /\ LET route_table_id == loc.route_tables[loc.j + 1]
       IN /\ RouteAlreadyExists(route_table_id, DefaultIpv6)
          /\ calls' = Append(calls, Failed(CreateRouteCall(route_table_id,
                                                           loc.egress_only_igw_id),
                                           "RouteAlreadyExists"))
    /\ loc' = [loc EXCEPT !.j = @ + 1]
    /\ UNCHANGED <<pc, runs, cloud>>

\* the loop over route_tables is exhausted: the function returns None.
egress_return ==
    /\ pc = "egress_routes"
    /\ loc.j >= Len(loc.route_tables)
    /\ Return(None)
    /\ UNCHANGED <<calls, runs, cloud>>

create_and_attach_egress_only_igw ==
    \/ egress_create \/ egress_reuse
    \/ egress_unclassifiable \/ egress_public \/ egress_private \/ egress_classified
    \/ egress_route_added \/ egress_route_failed \/ egress_return

(***************************************************************************)
(* vpc-subnet.py: lambda_handler(event, context)                           *)
(***************************************************************************)
\* describe_vpcs(): the account's VPCs, in listing order.
VpcList == <<"vpc-1", "vpc-2">>

\* lines 141-150: list the VPCs of the region.
handler_begin(caller) ==
    /\ pc' = "handler_loop"
    /\ loc' = [exc |-> "", ret |-> None, caller |-> caller,
               vpcs |-> VpcList, k |-> 0, ipv6_cidr_block |-> None]

\* lines 152-158, step 1.
handler_step1 ==
    /\ pc = "handler_loop"
    /\ loc.k < Len(loc.vpcs)
    /\ enable_begin(loc.vpcs[loc.k + 1], [pc |-> "handler_step2", frame |-> loc])
    /\ UNCHANGED <<calls, runs, cloud>>

\* lines 158-161, step 2: the block returned by step 1 is passed on.
handler_step2 ==
    /\ pc = "handler_step2"
    /\ assign_begin(loc.vpcs[loc.k + 1], loc.ret,
                    [pc |-> "handler_step3",
                     frame |-> [loc EXCEPT !.ipv6_cidr_block = loc.ret]])
    /\ UNCHANGED <<calls, runs, cloud>>

\* line 164, step 3; on its return the loop goes on with the next VPC.
handler_step3 ==
    /\ pc = "handler_step3"
    /\ egress_begin(loc.vpcs[loc.k + 1],
                    [pc |-> "handler_loop", frame |-> [loc EXCEPT !.k = @ + 1]])
    /\ UNCHANGED <<calls, runs, cloud>>

\* line 166: every VPC is processed.
handler_return ==
    /\ pc = "handler_loop"
    /\ loc.k >= Len(loc.vpcs)
    /\ Return(None)
    /\ UNCHANGED <<calls, runs, cloud>>

lambda_handler ==
    \/ handler_step1 \/ handler_step2 \/ handler_step3 \/ handler_return
    \/ enable_ipv6_cidr_for_vpc
    \/ assign_ipv6_cidr_to_subnets
    \/ create_and_attach_egress_only_igw

(***************************************************************************)
(* enable-dualstack-private-instances.py                                   *)
(***************************************************************************)
\* describe_instances(Filters=[subnet-id, instance-state-name=running]):
\* the running instances whose subnet is the given one.
describe_instances(subnet_id) ==
    SelectSeq(instances, LAMBDA x : x.SubnetId = subnet_id /\ x.State = "running")

\* lines 22-27: list the running instances of the subnet.
ainst_begin(subnet_id, caller) ==
    /\ pc' = "ainst_loop"
    /\ loc' = [exc |-> "", caller |-> caller,
               subnet_id |-> subnet_id,
               instances |-> describe_instances(subnet_id),
               n |-> 0, m |-> 0]

AnyInterface(network_interface, subnet_id) == TRUE

\* line 32: network_interface['SubnetId'] == subnet_id
InterfaceInSubnet(network_interface, subnet_id) ==
    network_interface.SubnetId = subnet_id

\* lines 31-38: the interface is in the subnet: request one more address.
ainst_assign ==
    /\ pc = "ainst_loop"
    /\ loc.n < Len(loc.instances)
    /\ loc.m < Len(loc.instances[loc.n + 1].NetworkInterfaces)
    /\ LET network_interface == loc.instances[loc.n + 1].NetworkInterfaces[loc.m + 1]
       IN /\ InterfaceInSubnet(network_interface, loc.subnet_id)
          /\ calls' = Append(calls, Ok([op |-> "assign_ipv6_addresses",
                                        NetworkInterfaceId |->
                                            network_interface.NetworkInterfaceId,
                                        Ipv6AddressCount |-> 1]))
          /\ addrs' = [addrs EXCEPT ![network_interface.NetworkInterfaceId] = @ + 1]
    /\ loc' = [loc EXCEPT !.m = @ + 1]
    /\ UNCHANGED <<pc, runs, vpcs, subnets, routeTables, eigws, instances, albs>>

\* lines 31-32: the interface is in another subnet.
ainst_skip ==
    /\ pc = "ainst_loop"
    /\ loc.n < Len(loc.instances)
    /\ loc.m < Len(loc.instances[loc.n + 1].NetworkInterfaces)
    /\ ~InterfaceInSubnet(loc.instances[loc.n + 1].NetworkInterfaces[loc.m + 1],
                          loc.subnet_id)
    /\ loc' = [loc EXCEPT !.m = @ + 1]
    /\ UNCHANGED <<pc, calls, runs, cloud>>

\* line 30: the instance's interfaces are done; next instance.
ainst_next ==
    /\ pc = "ainst_loop"
    /\ loc.n < Len(loc.instances)
    /\ loc.m >= Len(loc.instances[loc.n + 1].NetworkInterfaces)
    /\ loc' = [loc EXCEPT !.n = @ + 1, !.m = 0]
    /\ UNCHANGED <<pc, calls, runs, cloud>>

ainst_return ==
    /\ pc = "ainst_loop"
    /\ loc.n >= Len(loc.instances)
    /\ Return(None)
    /\ UNCHANGED <<calls, runs, cloud>>

assign_ipv6_addresses_to_instances ==
    ainst_assign \/ ainst_skip \/ ainst_next \/ ainst_return

\* lines 41-54: list the VPCs of the region, each with its association set.
main_begin(caller) ==
    /\ pc' = "main_vpcs"
    /\ loc' = [exc |-> "", ret |-> None, caller |-> caller,
               vpcs |-> [n \in 1..Len(VpcList) |->
                            [VpcId |-> VpcList[n],
                             Ipv6CidrBlockAssociationSet |-> vpcs[VpcList[n]]]],
               k |-> 0, subnets |-> <<>>, i |-> 0]

\* lines 59-61: the VPC has no IPv6 block: next VPC.
main_vpc_skip ==
    /\ pc = "main_vpcs"
    /\ loc.k < Len(loc.vpcs)
    /\ loc.vpcs[loc.k + 1].Ipv6CidrBlockAssociationSet = <<>>
    /\ loc' = [loc EXCEPT !.k = @ + 1]
    /\ UNCHANGED <<pc, calls, runs, cloud>>

\* lines 64-66: list the subnets of the VPC.
main_vpc_subnets ==
    /\ pc = "main_vpcs"
    /\ loc.k < Len(loc.vpcs)
    /\ loc.vpcs[loc.k + 1].Ipv6CidrBlockAssociationSet # <<>>
    /\ pc' = "main_subnets"
    /\ loc' = [loc EXCEPT !.subnets = describe_subnets(loc.vpcs[loc.k + 1].VpcId),
                          !.i = 0]
    /\ UNCHANGED <<calls, runs, cloud>>

\* lines 71-74: no route table is returned for the subnet.
main_unclassifiable ==
    /\ pc = "main_subnets"
    /\ loc.i < Len(loc.subnets)
    /\ describe_route_tables(loc.subnets[loc.i + 1]) = <<>>
    /\ loc' = [loc EXCEPT !.i = @ + 1]
    /\ UNCHANGED <<pc, calls, runs, cloud>>

\* lines 75-80: the route table has an internet-gateway route.
main_public ==
    /\ pc = "main_subnets"
    /\ loc.i < Len(loc.subnets)
    /\ describe_route_tables(loc.subnets[loc.i + 1]) # <<>>
    /\ igw_route(describe_route_tables(loc.subnets[loc.i + 1])[1].Routes)
    /\ loc' = [loc EXCEPT !.i = @ + 1]
    /\ UNCHANGED <<pc, calls, runs, cloud>>

\* lines 86-88: the private subnet has no IPv6 block.
main_no_ipv6 ==
    /\ pc = "main_subnets"
    /\ loc.i < Len(loc.subnets)
    /\ describe_route_tables(loc.subnets[loc.i + 1]) # <<>>
    /\ ~igw_route(describe_route_tables(loc.subnets[loc.i + 1])[1].Routes)
    /\ loc.subnets[loc.i + 1].assoc = <<>>
    /\ loc' = [loc EXCEPT !.i = @ + 1]
    /\ UNCHANGED <<pc, calls, runs, cloud>>

\* line 91: the private subnet has an IPv6 block: address its instances.
main_assign ==
    /\ pc = "main_subnets"
    /\ loc.i < Len(loc.subnets)
    /\ describe_route_tables(loc.subnets[loc.i + 1]) # <<>>
    /\ ~igw_route(describe_route_tables(loc.subnets[loc.i + 1])[1].Routes)
    /\ loc.subnets[loc.i + 1].assoc # <<>>
    /\ ainst_begin(loc.subnets[loc.i + 1].id,
                   [pc |-> "main_subnets", frame |-> [loc EXCEPT !.i = @ + 1]])
    /\ UNCHANGED <<calls, runs, cloud>>

\* line 68: the subnets of the VPC are done; next VPC.
main_subnets_end ==
    /\ pc = "main_subnets"
    /\ loc.i >= Len(loc.subnets)
    /\ pc' = "main_vpcs"
    /\ loc' = [loc EXCEPT !.k = @ + 1]
    /\ UNCHANGED <<calls, runs, cloud>>

main_return ==
    /\ pc = "main_vpcs"
    /\ loc.k >= Len(loc.vpcs)
    /\ Return(None)
    /\ UNCHANGED <<calls, runs, cloud>>

main ==
    \/ main_vpc_skip \/ main_vpc_subnets
    \/ main_unclassifiable \/ main_public \/ main_no_ipv6 \/ main_assign
    \/ main_subnets_end \/ main_return
    \/ assign_ipv6_addresses_to_instances

(***************************************************************************)
(* Specification of the subnet partitioner alone: the function is invoked, *)
(* MaxRuns times at most, on one VPC whose subnets hold nothing or         *)
(* pairwise disjoint sub-blocks of the VPC block.                          *)
(***************************************************************************)
B60 == Block(8193, 3512, 4660, 16, 0, 0, 0, 0, 60)     \* 2001:db8:1234:10::/60
B120 == Block(64768, 0, 0, 0, 0, 0, 0, 43776, 120)     \* fd00::ab00/120
B124 == Block(64768, 0, 0, 0, 0, 0, 0, 0, 124)         \* fd00::/124
B128 == Block(64768, 0, 0, 0, 0, 0, 0, 1, 128)         \* fd00::1/128

VpcBlockPool == {B56, B60, B120, B124, B128}

NumSubBlocks == Pow2(SubnetBits)

Splittable(b) == b.len + SubnetBits <= 128

NoCloud ==
    /\ routeTables = <<>>
    /\ eigws = <<>>
    /\ instances = <<>>
    /\ addrs = <<>>
    /\ albs = <<>>

Injective(f, hole) ==
    \A i, j \in DOMAIN f : (i # j /\ f[i] # hole) => f[i] # f[j]

InitSubnet ==
    /\ pc = "idle"
    /\ loc = TopFrame
    /\ calls = <<>>
    /\ runs = 0
    /\ NoCloud
    /\ \E b \in VpcBlockPool, foreign \in BOOLEAN :
          /\ vpcs = [v \in {"vpc-1", "vpc-2"} |-> IF v = "vpc-1" THEN <<b>> ELSE <<>>]
          /\ \/ \E n \in 0..MaxSubnets :
                   \E pre \in [1..n -> -1..MaxPreIndex] :
                      /\ Injective(pre, -1)
                      /\ ~Splittable(b) => \A i \in 1..n : pre[i] = -1
                      /\ subnets =
                            (IF foreign
                             THEN <<[id |-> 0, vpc |-> "vpc-2", assoc |-> <<>>, rt |-> None]>>
                             ELSE <<>>)
                            \o [i \in 1..n |->
                                  [id |-> i, vpc |-> "vpc-1", rt |-> None,
                                   assoc |-> IF pre[i] = -1 THEN <<>>
                                             ELSE <<SubnetsAt(b, b.len + SubnetBits, pre[i])>>]]
             \/ /\ ~foreign
                /\ \E n \in {NumSubBlocks, NumSubBlocks + 1} :
                      subnets = [i \in 1..n |->
                                   [id |-> i, vpc |-> "vpc-1", rt |-> None, assoc |-> <<>>]]

\* lambda_handler lines 158-161 pass the VPC's first association's block.
InvokeAssign ==
    /\ Idle
    /\ runs < MaxRuns
    /\ runs' = runs + 1
    /\ assign_begin("vpc-1", vpcs["vpc-1"][1], TopCaller)
    /\ UNCHANGED <<calls, cloud>>

NextSubnet == InvokeAssign \/ assign_ipv6_cidr_to_subnets

SpecSubnet == InitSubnet /\ [][NextSubnet]_vars

(***************************************************************************)
(* Properties of the subnet partitioner (checked under SpecSubnet).        *)
(***************************************************************************)
\* Bit k (1 = most significant) of an address.
Bit(addr, k) == (addr[((k - 1) \div 16) + 1] \div Pow2(15 - ((k - 1) % 16))) % 2

RECURSIVE BitsValue(_, _, _)
BitsValue(addr, from, to) ==
    IF from > to THEN 0
    ELSE 2 * BitsValue(addr, from, to - 1) + Bit(addr, to)

\* blk is the i-th (from 0) block of length P+8 of vpcBlock, in ascending
\* address order: inside the VPC block, the 8 bits after the VPC prefix
\* read i, the remaining bits are zero.
IsIthSubBlock(blk, vpcBlock, i) ==
    /\ vpcBlock.len + 8 <= 128
    /\ blk.len = vpcBlock.len + 8
    /\ SubnetOf(blk, vpcBlock)
    /\ BitsValue(blk.addr, vpcBlock.len + 1, vpcBlock.len + 8) = i
    /\ \A k \in (blk.len + 1)..128 : Bit(blk.addr, k) = 0

SubnetById(id) == CHOOSE s \in {subnets[k] : k \in 1..Len(subnets)} : s.id = id

Siblings(vpc_id) == {k \in 1..Len(subnets) : subnets[k].vpc = vpc_id}

SiblingsDisjoint(vpc_id) ==
    \A i, j \in Siblings(vpc_id) :
        \A m \in 1..Len(subnets[i].assoc), n \in 1..Len(subnets[j].assoc) :
            i # j => ~Overlaps(subnets[i].assoc[m], subnets[j].assoc[n])

SiblingsInsideVpc(vpc_id) ==
    \A i \in Siblings(vpc_id) :
        \A m \in 1..Len(subnets[i].assoc) : SubnetOf(subnets[i].assoc[m], vpcs[vpc_id][1])

\* C1: after every run of assign_ipv6_cidr_to_subnets that starts from
\* pairwise disjoint sub-blocks, every subnet's block is inside the VPC block
\* and no two sibling subnets hold overlapping blocks.
C1_SiblingDisjointAfterRun ==
    pc = "returned" => SiblingsInsideVpc("vpc-1") /\ SiblingsDisjoint("vpc-1")

AllLacking(listing) == \A k \in 1..Len(listing) : listing[k].assoc = <<>>

InAssign == pc \in {"assign_loop", "raised"}

\* Positions of the listing the run has dealt with: all of them once the
\* loop has ended (or the run has raised), the latest one while it runs.
Settled(frame) ==
    IF pc = "raised" \/ frame.index = Len(frame.subnets)
    THEN 1..frame.index
    ELSE {frame.index} \ {0}

PositionalBlocks(frame) ==
    LET live == describe_subnets(frame.vpc_id)
    IN \A k \in Settled(frame) :
          /\ live[k].id = frame.subnets[k].id
          /\ Len(live[k].assoc) = 1
          /\ IsIthSubBlock(live[k].assoc[1], frame.vpc_ipv6_network, k - 1)

LoopEnded(frame) == frame.index = Len(frame.subnets)

\* C2 (as claimed): for every VPC block and every listing of N <= 256 subnets
\* that all lack a block, the run raises nothing and the i-th subnet of the
\* listing is associated with the i-th sub-block of length P+8.
C2_PositionalAnyPrefix ==
    (InAssign /\ AllLacking(loc.subnets) /\ Len(loc.subnets) <= NumSubBlocks)
        => (pc # "raised" /\ PositionalBlocks(loc))

\* C2 (amended): the same for every VPC block of prefix length P <= 120, the
\* blocks for which sub-blocks of length P+8 exist; the blocks associated
\* are then pairwise disjoint and inside the VPC block.
C2_PositionalSplittable ==
    (InAssign /\ AllLacking(loc.subnets) /\ Len(loc.subnets) <= NumSubBlocks
        /\ loc.vpc_ipv6_network.len <= 120)
        => /\ pc # "raised"
           /\ PositionalBlocks(loc)
           /\ LoopEnded(loc) => /\ SiblingsDisjoint(loc.vpc_id)
                                /\ SiblingsInsideVpc(loc.vpc_id)

\* 2001:db8:1234::/56 with two subnets lacking blocks has yielded
\* 2001:db8:1234:0::/64 and 2001:db8:1234:1::/64.
C2_Witness ==
    /\ pc = "assign_loop"
    /\ loc.vpc_ipv6_network = B56
    /\ AllLacking(loc.subnets)
    /\ Len(loc.subnets) = 2
    /\ loc.index = 2
    /\ SubnetById(loc.subnets[1].id).assoc = <<Block(8193, 3512, 4660, 0, 0, 0, 0, 0, 64)>>
    /\ SubnetById(loc.subnets[2].id).assoc = <<Block(8193, 3512, 4660, 1, 0, 0, 0, 0, 64)>>

\* Number of sub-blocks of length P+8 the VPC block has.
SubBlocksOf(vpcBlock) == IF vpcBlock.len + 8 <= 128 THEN Pow2(8) ELSE 0

CallsForSubnet(id) ==
    {c \in 1..Len(calls) :
        /\ calls[c].request.op = "associate_subnet_cidr_block"
        /\ calls[c].request.SubnetId = id}

AtExhaustedSubnet ==
    /\ pc = "assign_loop"
    /\ loc.index < Len(loc.subnets)
    /\ loc.subnets[loc.index + 1].assoc = <<>>
    /\ loc.index >= SubBlocksOf(loc.vpc_ipv6_network)

EndsAllocationExhausted ==
    /\ pc' = "raised"
    /\ loc'.exc \in {"ValueError", "IndexError"}
    /\ calls' = calls
    /\ subnets' = subnets

\* C3: when the loop stands at a subnet lacking a block whose index is not
\* below the number of /(P+8) sub-blocks of the VPC block, the step ends the
\* run in an allocation error (the ValueError or IndexError of line 68) and
\* issues no associate_subnet_cidr_block call.
C3_ExhaustionRaises == [][AtExhaustedSubnet => EndsAllocationExhausted]_vars

\* The same for every VPC block but a /128, which subnets() yields whole.
C3_ExhaustionRaisesBelow128 ==
    [][(AtExhaustedSubnet /\ loc.vpc_ipv6_network.len # 128)
          => EndsAllocationExhausted]_vars

\* Every block the run associates lies inside the VPC block.
C3_AssociatedInsideVpc ==
    \A c \in 1..Len(calls) :
        calls[c].request.op = "associate_subnet_cidr_block"
            => SubnetOf(calls[c].request.Ipv6CidrBlock, vpcs["vpc-1"][1])

C3_ExhaustionReached ==
    /\ pc = "raised"
    /\ loc.exc = "IndexError"
    /\ loc.index = NumSubBlocks
    /\ Len(calls) = NumSubBlocks

(***************************************************************************)
(* Specification of VPC IPv6 enablement alone: enable_ipv6_cidr_for_vpc is *)
(* invoked on vpc-1, MaxRuns times at most, in an account of two VPCs.     *)
(***************************************************************************)
MaxAssoc == 2

SeqsUpTo(S, n) == UNION {[1..m -> S] : m \in 0..n}

InitVpc ==
    /\ pc = "idle"
    /\ loc = TopFrame
    /\ calls = <<>>
    /\ runs = 0
    /\ NoCloud
    /\ subnets = <<>>
    /\ vpcs \in [{"vpc-1", "vpc-2"} -> SeqsUpTo({B56, C56, B60}, MaxAssoc)]

InvokeEnable ==
    /\ Idle
    /\ runs < MaxRuns
    /\ runs' = runs + 1
    /\ enable_begin("vpc-1", TopCaller)
    /\ UNCHANGED <<calls, cloud>>

NextVpc == InvokeEnable \/ enable_ipv6_cidr_for_vpc

SpecVpc == InitVpc /\ [][NextVpc]_vars

\* Values returned by the top-level calls completed so far.
Returned ==
    IF pc = "idle" THEN <<>>
    ELSE IF pc = "returned" THEN Append(loc.rets, loc.ret)
    ELSE loc.caller.frame.rets

\* On a VPC that has an association: no request, the first block is returned.
EnableExistingStep ==
    (pc = "enable_check" /\ vpcs[loc.vpc_id] # <<>>)
        => /\ pc' = "returned"
           /\ loc'.ret = vpcs[loc.vpc_id][1]
           /\ calls' = calls
           /\ vpcs' = vpcs

\* On a VPC with none: one associate_vpc_cidr_block request for that VPC,
\* then the block read back by the second describe is returned.
EnableAbsentStep ==
    /\ (pc = "enable_check" /\ vpcs[loc.vpc_id] = <<>>)
          => /\ Len(calls') = Len(calls) + 1
             /\ SubSeq(calls', 1, Len(calls)) = calls
             /\ calls'[Len(calls')].request =
                    [op |-> "associate_vpc_cidr_block", VpcId |-> loc.vpc_id]
             /\ pc' \in {"enable_refetch", "raised"}
             /\ \A v \in DOMAIN vpcs : v # loc.vpc_id => vpcs'[v] = vpcs[v]
    /\ pc = "enable_refetch"
          => /\ pc' = "returned"
             /\ vpcs[loc.vpc_id] # <<>>
             /\ loc'.ret = vpcs[loc.vpc_id][1]
             /\ calls' = calls
             /\ vpcs' = vpcs

\* Once a call has returned, later calls issue no mutating request.
EnableSecondCallStep == Returned # <<>> => (calls' = calls /\ vpcs' = vpcs)

SameReturns == \A i, j \in 1..Len(Returned) : Returned[i] = Returned[j]

\* C6: enable_ipv6_cidr_for_vpc on a VPC that has an association issues no
\* associate_vpc_cidr_block call and returns the first association's block;
\* on a VPC with none it issues exactly one and returns the block read back;
\* calls after one that returned issue no mutating call and return the same
\* block.
C6_EnableIdempotent ==
    /\ [][EnableExistingStep /\ EnableAbsentStep /\ EnableSecondCallStep]_vars
    /\ []SameReturns

\* Two calls have returned, the first of them having associated a block.
C6_Witness ==
    /\ pc = "returned"
    /\ Len(loc.rets) = 1
    /\ Len(calls) = 1
    /\ loc.ret = loc.rets[1]
    /\ vpcs["vpc-1"] = <<loc.ret>>

(***************************************************************************)
(* Specification of the whole lambda_handler of vpc-subnet.py, invoked     *)
(* MaxRuns times at most on an account of two VPCs: vpc-1 with two subnets *)
(* and the route tables rtb-1 and rtb-2, vpc-2 with one subnet and rtb-3.  *)
(***************************************************************************)
LocalRoute ==
    [DestinationCidrBlock |-> "10.0.0.0/16", GatewayId |-> <<"l", "o", "c", "a", "l">>]

IgwRoute ==
    [DestinationCidrBlock |-> "0.0.0.0/0", GatewayId |-> <<"i", "g", "w", "-", "a">>]

NatRoute == [DestinationCidrBlock |-> "0.0.0.0/0", NatGatewayId |-> "nat-1"]

EigwRoute(id) ==
    [DestinationIpv6CidrBlock |-> DefaultIpv6, EgressOnlyInternetGatewayId |-> id]

\* Route tables of the initial inventory: the local route, a default IPv4
\* route (internet gateway or NAT gateway), and possibly a default IPv6
\* route through one of the given targets.
RouteTableChoices(v6routes) ==
    {<<LocalRoute, v4>> : v4 \in {IgwRoute, NatRoute}}
    \cup {<<LocalRoute, v4, v6>> : v4 \in {IgwRoute, NatRoute}, v6 \in v6routes}

Eigw1 == [id |-> EigwId(1), att |-> {"vpc-1"}]

Eigw2 == [id |-> EigwId(2), att |-> {"vpc-2"}]

EigwListings == {<<>>, <<Eigw1>>, <<Eigw2>>, <<Eigw2, Eigw1>>}

LackingSubnet(id, vpc_id, rt) == [id |-> id, vpc |-> vpc_id, assoc |-> <<>>, rt |-> rt]

InitHandler ==
    /\ pc = "idle"
    /\ loc = TopFrame
    /\ calls = <<>>
    /\ runs = 0
    /\ instances = <<>>
    /\ addrs = <<>>
    /\ albs = <<>>
    /\ \E a \in {<<>>, <<B56>>, <<B124>>} : vpcs = [v \in {"vpc-1", "vpc-2"} |->
                                            IF v = "vpc-1" THEN a ELSE <<C56>>]
    /\ \E rt1, rt2 \in {None, "rtb-1", "rtb-2"} :
          subnets = <<LackingSubnet(1, "vpc-1", rt1),
                      LackingSubnet(2, "vpc-2", "rtb-3"),
                      LackingSubnet(3, "vpc-1", rt2)>>
    /\ \E t1, t2 \in RouteTableChoices({EigwRoute(EigwId(1)), EigwRoute(EigwId(2))}) :
          routeTables = [t \in {"rtb-1", "rtb-2", "rtb-3"} |->
                            IF t = "rtb-1" THEN t1
                            ELSE IF t = "rtb-2" THEN t2
                            ELSE <<LocalRoute, NatRoute>>]
    /\ eigws \in EigwListings

InvokeHandler ==
    /\ Idle
    /\ runs < MaxRuns
    /\ runs' = runs + 1
    /\ handler_begin(TopCaller)
    /\ UNCHANGED <<calls, cloud>>

NextHandler == InvokeHandler \/ lambda_handler

SpecHandler == InitHandler /\ [][NextHandler]_vars

(***************************************************************************)
(* Properties of the egress-only gateway step (checked under SpecHandler). *)
(***************************************************************************)
\* The rule of the specification: a route table is PUBLIC iff some route has
\* a gateway id whose first four characters are "igw-".
IsIgwId(id) ==
    /\ Len(id) >= 4
    /\ id[1] = "i" /\ id[2] = "g" /\ id[3] = "w" /\ id[4] = "-"

PublicRoutes(routes) ==
    \E r \in 1..Len(routes) :
        "GatewayId" \in DOMAIN routes[r] /\ IsIgwId(routes[r].GatewayId)

\* Subnets (positions in the listing) that have a route table without
\* internet-gateway route.
PrivateSubnets ==
    {k \in 1..Len(subnets) :
        subnets[k].rt # None /\ ~PublicRoutes(routeTables[subnets[k].rt])}

DefaultV6Routes(rt) ==
    {r \in 1..Len(routeTables[rt]) :
        /\ "DestinationIpv6CidrBlock" \in DOMAIN routeTables[rt][r]
        /\ routeTables[rt][r].DestinationIpv6CidrBlock = "::/0"}

AttachedEigwIds(vpc_id) ==
    {eigws[g].id : g \in {h \in 1..Len(eigws) : vpc_id \in eigws[h].att}}

PointsAtEigwOf(route, vpc_id) ==
    /\ "EgressOnlyInternetGatewayId" \in DOMAIN route
    /\ route.EgressOnlyInternetGatewayId \in AttachedEigwIds(vpc_id)

\* The handler's current run has completed the egress step of the VPC.
EgressDone(vpc_id) ==
    \/ pc = "returned" /\ runs >= 1
    \/ /\ pc = "handler_loop"
       /\ \E n \in 1..loc.k : loc.vpcs[n] = vpc_id

\* C5: after create_and_attach_egress_only_igw(vpc) completes, the route
\* table of every PRIVATE subnet of the VPC has exactly one ::/0 route, and
\* that route points at the VPC's egress-only gateway.
C5_EgressRouteGuarantee ==
    \A k \in PrivateSubnets :
        EgressDone(subnets[k].vpc)
            => /\ Cardinality(DefaultV6Routes(subnets[k].rt)) = 1
               /\ \A r \in DefaultV6Routes(subnets[k].rt) :
                     PointsAtEigwOf(routeTables[subnets[k].rt][r], subnets[k].vpc)

CreateEigwCalls(vpc_id) ==
    {c \in 1..Len(calls) :
        /\ calls[c].request.op = "create_egress_only_internet_gateway"
        /\ calls[c].request.VpcId = vpc_id}

\* A gateway is created for a VPC only when none is attached to it.
CreateOnlyWhenNoneAttached ==
    (/\ Len(calls') = Len(calls) + 1
     /\ calls'[Len(calls')].request.op = "create_egress_only_internet_gateway")
        => /\ AttachedEigwIds(calls'[Len(calls')].request.VpcId) = {}
           /\ calls'[Len(calls')].request.VpcId = loc.vpc_id

\* A gateway attached to the VPC when the function starts is the one used.
ReuseAttached ==
    (pc = "egress_gateway" /\ AttachedEigwIds(loc.vpc_id) # {})
        => /\ loc.egress_only_igw_id \in AttachedEigwIds(loc.vpc_id)
           /\ calls' = calls
           /\ eigws' = eigws
           /\ loc'.egress_only_igw_id = loc.egress_only_igw_id

\* The gateway the function works with is attached to its VPC.
UsesOwnGateway ==
    pc \in {"egress_classify", "egress_routes"}
        => loc.egress_only_igw_id \in AttachedEigwIds(loc.vpc_id)

OneEigwPerVpc ==
    \A v \in DOMAIN vpcs :
        /\ Cardinality(CreateEigwCalls(v)) <= 1
        /\ Cardinality({g \in 1..Len(eigws) : v \in eigws[g].att}) <= 1

\* C7: create_egress_only_internet_gateway is called for a VPC only when no
\* listed gateway is attached to it; no VPC gets a second gateway; every run
\* works with the gateway attached to its own VPC.
C7_OneEigwPerVpc ==
    /\ [][CreateOnlyWhenNoneAttached /\ ReuseAttached]_vars
    /\ [](UsesOwnGateway /\ OneEigwPerVpc)

\* A second run reuses the gateway the first run created for vpc-1, although
\* the gateway of vpc-2 is listed before it.
C7_Witness ==
    /\ runs = 2
    /\ pc = "egress_gateway"
    /\ loc.vpc_id = "vpc-1"
    /\ Cardinality(CreateEigwCalls("vpc-1")) = 1
    /\ Len(eigws) = 2
    /\ eigws[1] = Eigw2
    /\ loc.egress_only_igw_id = eigws[2].id

\* In the route loop each step requests ::/0 for the next route table and
\* stays in the loop; a rejected request leaves the routes as they are.
RouteStepTolerant ==
    (pc = "egress_routes" /\ loc.j < Len(loc.route_tables))
        => /\ pc' = "egress_routes"
           /\ loc'.j = loc.j + 1
           /\ Len(calls') = Len(calls) + 1
           /\ calls'[Len(calls')].request =
                 CreateRouteCall(loc.route_tables[loc.j + 1], loc.egress_only_igw_id)
           /\ RouteAlreadyExists(loc.route_tables[loc.j + 1], "::/0")
                 => /\ routeTables' = routeTables
                    /\ calls'[Len(calls')].result # "ok"

\* After the last route table the handler goes on with the next VPC.
RouteLoopEnd ==
    (pc = "egress_routes" /\ loc.j >= Len(loc.route_tables))
        => /\ pc' = "handler_loop"
           /\ loc'.vpcs = VpcList
           /\ loc'.k <= Len(VpcList)
           /\ loc'.vpcs[loc'.k] = loc.vpc_id

CreateRouteCalls(rt) ==
    {c \in 1..Len(calls) :
        calls[c].request.op = "create_route" /\ calls[c].request.RouteTableId = rt}

\* The route loop raises nothing, and a handler that returns has requested a
\* route for the route table of every private subnet of every VPC.
RouteLoopNeverRaises ==
    /\ pc = "raised" => "route_tables" \notin DOMAIN loc
    /\ (pc = "returned" /\ runs >= 1)
          => \A k \in PrivateSubnets : CreateRouteCalls(subnets[k].rt) # {}

\* C10: a create_route call that fails is caught: the routes stay as they
\* are, the run goes on, create_route is attempted for every remaining
\* route table, and the remaining VPCs are processed.
C10_RouteFailureTolerated ==
    /\ [][RouteStepTolerant /\ RouteLoopEnd]_vars
    /\ []RouteLoopNeverRaises

\* The handler has returned; a create_route for a table of vpc-1 was
\* rejected, and a later one for the table of vpc-2 was accepted.
C10_Witness ==
    /\ pc = "returned"
    /\ \E c, d \in 1..Len(calls) :
          /\ c < d
          /\ calls[c].request.op = "create_route"
          /\ calls[c].request.RouteTableId \in {"rtb-1", "rtb-2"}
          /\ calls[c].result = "RouteAlreadyExists"
          /\ calls[d].request.op = "create_route"
          /\ calls[d].request.RouteTableId = "rtb-3"
          /\ calls[d].result = "ok"

(***************************************************************************)
(* Specification of main() of the instances script, invoked MaxRuns times  *)
(* at most: vpc-1 with subnets 1 and 2, vpc-2 with subnet 3; rtb-1 and     *)
(* rtb-3 are private, rtb-2 is public.                                     *)
(***************************************************************************)
Eni(id, subnet_id) == [NetworkInterfaceId |-> id, SubnetId |-> subnet_id]

Instance(id, state, enis) ==
    [InstanceId |-> id, State |-> state, SubnetId |-> enis[1].SubnetId,
     NetworkInterfaces |-> enis]

Subnet(id, vpc_id, assoc, rt) == [id |-> id, vpc |-> vpc_id, assoc |-> assoc, rt |-> rt]

InitMain ==
    /\ pc = "idle"
    /\ loc = TopFrame
    /\ calls = <<>>
    /\ runs = 0
    /\ eigws = <<>>
    /\ albs = <<>>
    /\ \E a \in {<<>>, <<B56>>} : vpcs = [v \in {"vpc-1", "vpc-2"} |->
                                            IF v = "vpc-1" THEN a ELSE <<C56>>]
    /\ \E rt1, rt2 \in {None, "rtb-1", "rtb-2"},
          a1 \in {<<>>, <<SubnetsAt(B56, 64, 0)>>},
          a2 \in {<<>>, <<SubnetsAt(B56, 64, 1)>>} :
          subnets = <<Subnet(1, "vpc-1", a1, rt1),
                      Subnet(2, "vpc-1", a2, rt2),
                      Subnet(3, "vpc-2", <<SubnetsAt(C56, 64, 0)>>, "rtb-3")>>
    /\ routeTables = [t \in {"rtb-1", "rtb-2", "rtb-3"} |->
                         IF t = "rtb-2" THEN <<LocalRoute, IgwRoute>>
                         ELSE <<LocalRoute, NatRoute>>]
    /\ \E st1, st2 \in {"running", "stopped"},
          more \in {<<>>, <<Eni("eni-2", 1)>>, <<Eni("eni-2", 2)>>},
          home \in {2, 3} :
          instances = <<Instance("i-1", st1, <<Eni("eni-1", 1)>> \o more),
                        Instance("i-2", st2, <<Eni("eni-3", home)>>)>>
    /\ \E held \in {0, 1} :
          addrs = [e \in {"eni-1", "eni-2", "eni-3"} |-> IF e = "eni-1" THEN held ELSE 0]

InvokeMain ==
    /\ Idle
    /\ runs < MaxRuns
    /\ runs' = runs + 1
    /\ main_begin(TopCaller)
    /\ UNCHANGED <<calls, cloud>>

NextMain == InvokeMain \/ main

SpecMain == InitMain /\ [][NextMain]_vars

(***************************************************************************)
(* Properties of the instance address step (checked under SpecMain).       *)
(***************************************************************************)
\* The subnet is PRIVATE, has an IPv6 block and lies in a VPC that has one.
QualifyingSubnet(subnet_id) ==
    \E k \in PrivateSubnets :
        /\ subnets[k].id = subnet_id
        /\ subnets[k].assoc # <<>>
        /\ vpcs[subnets[k].vpc] # <<>>

\* The interface is in a qualifying subnet and belongs to a running
\* instance of that subnet.
QualifyingEni(eni_id) ==
    \E n \in 1..Len(instances) :
        /\ instances[n].State = "running"
        /\ QualifyingSubnet(instances[n].SubnetId)
        /\ \E m \in 1..Len(instances[n].NetworkInterfaces) :
              /\ instances[n].NetworkInterfaces[m].NetworkInterfaceId = eni_id
              /\ instances[n].NetworkInterfaces[m].SubnetId = instances[n].SubnetId

AssignAddressCalls(eni_id) ==
    {c \in 1..Len(calls) :
        /\ calls[c].request.op = "assign_ipv6_addresses"
        /\ calls[c].request.NetworkInterfaceId = eni_id}

\* After every run that has returned, each qualifying interface has had one
\* request per run, every other interface none; each request asks for one.
OneRequestPerRun ==
    /\ pc = "returned"
          => \A e \in DOMAIN addrs :
                Cardinality(AssignAddressCalls(e)) = IF QualifyingEni(e) THEN runs ELSE 0
    /\ \A c \in 1..Len(calls) :
          calls[c].request.op = "assign_ipv6_addresses"
              => calls[c].request.Ipv6AddressCount = 1

\* Addresses are only added: one per request, to the interface requested.
AddressesOnlyAdded ==
    \A e \in DOMAIN addrs :
        addrs'[e] =
            IF /\ Len(calls') = Len(calls) + 1
               /\ calls'[Len(calls')].request.op = "assign_ipv6_addresses"
               /\ calls'[Len(calls')].request.NetworkInterfaceId = e
            THEN addrs[e] + 1
            ELSE addrs[e]

\* C8: one run of main requests one address, once, for each interface that
\* lies in a PRIVATE subnet with an IPv6 block in a VPC with an IPv6 block
\* and belongs to a running instance of that subnet, and for no other;
\* nothing is checked or removed, so every run adds one more address.
C8_OneAddressPerRun ==
    /\ []OneRequestPerRun
    /\ [][AddressesOnlyAdded]_vars

\* The interface belongs to a running instance of a qualifying subnet,
\* whichever subnet the interface itself is in.
OnQualifyingInstance(eni_id) ==
    \E n \in 1..Len(instances) :
        /\ instances[n].State = "running"
        /\ QualifyingSubnet(instances[n].SubnetId)
        /\ \E m \in 1..Len(instances[n].NetworkInterfaces) :
              instances[n].NetworkInterfaces[m].NetworkInterfaceId = eni_id

\* C8 as stated, for every interface of a running instance in a qualifying
\* subnet: each has had one request per run that has returned.
C8_EveryInterfaceOfInstance ==
    pc = "returned"
        => \A e \in DOMAIN addrs :
              Cardinality(AssignAddressCalls(e)) = IF OnQualifyingInstance(e) THEN runs ELSE 0

\* Two runs have added two addresses to eni-1, which held one before.
C8_Witness ==
    /\ pc = "returned"
    /\ runs = 2
    /\ QualifyingEni("eni-1")
    /\ ~QualifyingEni("eni-2")
    /\ "eni-2" \in {instances[1].NetworkInterfaces[m].NetworkInterfaceId :
                      m \in 1..Len(instances[1].NetworkInterfaces)}
    /\ Cardinality(AssignAddressCalls("eni-1")) = 2
    /\ addrs["eni-1"] = 3

(***************************************************************************)
(* Specification of the two classifying steps on one inventory: vpc-1 has  *)
(* an IPv6 block and the subnets 1 and 2, vpc-2 has none.  The steps run   *)
(* MaxRuns times at most, in any order: create_and_attach_egress_only_igw  *)
(* of vpc-subnet.py on vpc-1, and main() of the instances script.          *)
(***************************************************************************)
MaxRoutes == 2

\* A route whose gateway id is that of an egress-only gateway.
EigwGatewayRoute ==
    [DestinationIpv6CidrBlock |-> DefaultIpv6,
     GatewayId |-> <<"e", "i", "g", "w", "-", "x">>]

VgwRoute ==
    [DestinationCidrBlock |-> "192.168.0.0/16", GatewayId |-> <<"v", "g", "w", "-", "1">>]

ClassifyRoutes ==
    {LocalRoute, IgwRoute, NatRoute, EigwGatewayRoute, VgwRoute, EigwRoute(EigwId(1))}

InitClassify ==
    /\ pc = "idle"
    /\ loc = TopFrame
    /\ calls = <<>>
    /\ runs = 0
    /\ albs = <<>>
    /\ vpcs = [v \in {"vpc-1", "vpc-2"} |-> IF v = "vpc-1" THEN <<B56>> ELSE <<>>]
    /\ \E rt1 \in {None, "rtb-1"}, rt2 \in {None, "rtb-1", "rtb-2"},
          a1 \in {<<>>, <<SubnetsAt(B56, 64, 0)>>} :
          subnets = <<Subnet(1, "vpc-1", a1, rt1),
                      Subnet(2, "vpc-1", <<SubnetsAt(B56, 64, 1)>>, rt2)>>
    /\ \E t1 \in SeqsUpTo(ClassifyRoutes, MaxRoutes) :
          routeTables = [t \in {"rtb-1", "rtb-2"} |->
                            IF t = "rtb-1" THEN t1 ELSE <<LocalRoute, IgwRoute>>]
    /\ eigws \in {<<>>, <<Eigw1>>}
    /\ instances = <<Instance("i-1", "running", <<Eni("eni-1", 1), Eni("eni-2", 2)>>),
                     Instance("i-2", "running", <<Eni("eni-3", 2)>>)>>
    /\ addrs = [e \in {"eni-1", "eni-2", "eni-3"} |-> 0]

InvokeEgress ==
    /\ Idle
    /\ runs < MaxRuns
    /\ runs' = runs + 1
    /\ egress_begin("vpc-1", TopCaller)
    /\ UNCHANGED <<calls, cloud>>

NextClassify ==
    \/ InvokeEgress \/ create_and_attach_egress_only_igw
    \/ InvokeMain \/ main

SpecClassify == InitClassify /\ [][NextClassify]_vars

(***************************************************************************)
(* Properties of the classification (checked under SpecClassify).          *)
(***************************************************************************)
\* The subnet has a route table, and no route of it has an "igw-" gateway.
IsPrivate(subnet) ==
    subnet.rt # None /\ ~PublicRoutes(routeTables[subnet.rt])

\* The egress-gateway step keeps, in listing order, exactly the PRIVATE
\* subnets of the VPC and their route tables.
EgressClassifies ==
    pc = "egress_routes"
        => LET private == SelectSeq(describe_subnets(loc.vpc_id), IsPrivate)
           IN /\ loc.private_subnets = [k \in 1..Len(private) |-> private[k].id]
              /\ loc.route_tables = [k \in 1..Len(private) |-> private[k].rt]

\* The instance-address step goes on to the instances of a subnet exactly
\* when the subnet is PRIVATE (and has an IPv6 block).
MainClassifies ==
    (pc = "main_subnets" /\ loc.i < Len(loc.subnets))
        => LET subnet == loc.subnets[loc.i + 1]
           IN /\ (pc' = "ainst_loop") <=> (IsPrivate(subnet) /\ subnet.assoc # <<>>)
              /\ pc' = "ainst_loop" => loc'.subnet_id = subnet.id
              /\ pc' # "ainst_loop" => (pc' = pc /\ loc'.i = loc.i + 1)

\* Every create_route is for the route table of a PRIVATE subnet, every
\* assign_ipv6_addresses for an interface in a PRIVATE subnet.
MutationsOnlyForPrivate ==
    \A c \in 1..Len(calls) :
        /\ calls[c].request.op = "create_route"
              => \E k \in PrivateSubnets : subnets[k].rt = calls[c].request.RouteTableId
        /\ calls[c].request.op = "assign_ipv6_addresses"
              => \E k \in PrivateSubnets, n \in 1..Len(instances) :
                    \E m \in 1..Len(instances[n].NetworkInterfaces) :
                        /\ instances[n].NetworkInterfaces[m].NetworkInterfaceId
                              = calls[c].request.NetworkInterfaceId
                        /\ instances[n].NetworkInterfaces[m].SubnetId = subnets[k].id

\* C4: both steps treat a subnet as PUBLIC iff some route of its route table
\* has a gateway id starting with "igw-", as PRIVATE otherwise, and as
\* neither when no route table is returned; mutating calls are issued for
\* PRIVATE subnets only.
C4_Classification ==
    /\ [](EgressClassifies /\ MutationsOnlyForPrivate)
    /\ [][MainClassifies]_vars

\* Both steps have run on a subnet whose route table has an "eigw-" gateway
\* id and no "igw-" one, next to a subnet that is not PRIVATE.
C4_Witness ==
    /\ pc = "returned"
    /\ runs = 2
    /\ \E r \in 1..Len(routeTables["rtb-1"]) : routeTables["rtb-1"][r] = EigwGatewayRoute
    /\ subnets[1].rt = "rtb-1"
    /\ subnets[2].rt # "rtb-1"
    /\ \E c \in 1..Len(calls) :
          calls[c].request.op = "create_route" /\ calls[c].request.RouteTableId = "rtb-1"
    /\ \E c \in 1..Len(calls) :
          /\ calls[c].request.op = "assign_ipv6_addresses"
          /\ calls[c].request.NetworkInterfaceId = "eni-1"

(***************************************************************************)
(* elb.py.  A load balancer is a record with LoadBalancerArn,              *)
(* IpAddressType (a sequence of characters) and Listeners; albs is the     *)
(* listing describe_load_balancers returns.                                *)
(***************************************************************************)
UpperChars ==
    <<"A", "B", "C", "D", "E", "F", "G", "H", "I", "J", "K", "L", "M",
      "N", "O", "P", "Q", "R", "S", "T", "U", "V", "W", "X", "Y", "Z">>

LowerChars ==
    <<"a", "b", "c", "d", "e", "f", "g", "h", "i", "j", "k", "l", "m",
      "n", "o", "p", "q", "r", "s", "t", "u", "v", "w", "x", "y", "z">>

\* str.lower
Lower(s) ==
    [k \in 1..Len(s) |->
        IF \E u \in 1..Len(UpperChars) : UpperChars[u] = s[k]
        THEN LowerChars[CHOOSE u \in 1..Len(UpperChars) : UpperChars[u] = s[k]]
        ELSE s[k]]

Dualstack == <<"d", "u", "a", "l", "s", "t", "a", "c", "k">>

NeverDualstack(ip_address_type) == FALSE

\* line 25: 'dualstack' in load_balancer['IpAddressType'].lower()
IsDualstack(ip_address_type) == Contains(Lower(ip_address_type), Dualstack)

\* describe_load_balancers(LoadBalancerArns=[alb_arn])['LoadBalancers'][0]
describe_load_balancer(alb_arn) ==
    albs[CHOOSE a \in 1..Len(albs) : albs[a].LoadBalancerArn = alb_arn]

\* lines 17-18: describe the load balancer.
alb_begin(alb_arn, caller) ==
    /\ pc' = "alb_check"
    /\ loc' = [exc |-> "", ret |-> None, caller |-> caller,
               alb_arn |-> alb_arn,
               load_balancer |-> describe_load_balancer(alb_arn)]

\* lines 25-27: already dual-stack: return.
alb_already ==
    /\ pc = "alb_check"
    /\ IsDualstack(loc.load_balancer.IpAddressType)
    /\ Return(None)
    /\ UNCHANGED <<calls, runs, cloud>>

SetIpAddressTypeCall(alb_arn) ==
    [op |-> "set_ip_address_type", LoadBalancerArn |-> alb_arn,
     IpAddressType |-> Dualstack]

\* lines 30-37, 41-42: the provider sets the address type (the subnets of
\* the load balancer have IPv6 blocks); update_alb_listeners_to_support_ipv6
\* is called and describes the listeners.
alb_set_type ==
    /\ pc = "alb_check"
    /\ ~IsDualstack(loc.load_balancer.IpAddressType)
    /\ loc.load_balancer.SubnetsHaveIpv6
    /\ calls' = Append(calls, Ok(SetIpAddressTypeCall(loc.alb_arn)))
    /\ albs' = [a \in 1..Len(albs) |->
                   IF albs[a].LoadBalancerArn = loc.alb_arn
                   THEN [albs[a] EXCEPT !.IpAddressType = Dualstack]
                   ELSE albs[a]]
    /\ pc' = "listeners_loop"
    /\ loc' = [exc |-> "", caller |-> [pc |-> "alb_end", frame |-> loc],
               alb_arn |-> loc.alb_arn,
               listeners |-> describe_load_balancer(loc.alb_arn).Listeners,
               l |-> 0]
    /\ UNCHANGED <<runs, vpcs, subnets, routeTables, eigws, instances, addrs>>

\* lines 30-33: the provider rejects the change (the subnets of the load
\* balancer have no IPv6 block); nothing catches the exception.
alb_set_type_rejected ==
    /\ pc = "alb_check"
    /\ ~IsDualstack(loc.load_balancer.IpAddressType)
    /\ ~loc.load_balancer.SubnetsHaveIpv6
    /\ calls' = Append(calls, Failed(SetIpAddressTypeCall(loc.alb_arn), "InvalidSubnet"))
    /\ Raise("ClientError")
    /\ UNCHANGED <<runs, cloud>>

\* line 37 has returned: the function returns None.
alb_return ==
    /\ pc = "alb_end"
    /\ Return(None)
    /\ UNCHANGED <<calls, runs, cloud>>

enable_ipv6_for_alb ==
    alb_already \/ alb_set_type \/ alb_set_type_rejected \/ alb_return

\* The provider sets the listener's port, protocol and default actions.
ModifyListener(listener_arn, port, protocol, default_actions) ==
    [a \in 1..Len(albs) |->
        [albs[a] EXCEPT !.Listeners =
            [k \in 1..Len(@) |->
                IF @[k].ListenerArn = listener_arn
                THEN [@[k] EXCEPT !.Port = port, !.Protocol = protocol,
                                  !.DefaultActions = default_actions]
                ELSE @[k]]]]

\* lines 44-59: modify the next listener with its own port, protocol and
\* default actions.
listeners_modify ==
    /\ pc = "listeners_loop"
    /\ loc.l < Len(loc.listeners)
    /\ LET listener == loc.listeners[loc.l + 1]
           listener_arn == listener.ListenerArn
           port == listener.Port
           protocol == listener.Protocol
           default_actions == listener.DefaultActions
       IN /\ calls' = Append(calls, Ok([op |-> "modify_listener",
                                        ListenerArn |-> listener_arn,
                                        Port |-> port,
                                        Protocol |-> protocol,
                                        DefaultActions |-> default_actions]))
          /\ albs' = ModifyListener(listener_arn, port, protocol, default_actions)
    /\ loc' = [loc EXCEPT !.l = @ + 1]
    /\ UNCHANGED <<pc, runs, vpcs, subnets, routeTables, eigws, instances, addrs>>

listeners_return ==
    /\ pc = "listeners_loop"
    /\ loc.l >= Len(loc.listeners)
    /\ Return(None)
    /\ UNCHANGED <<calls, runs, cloud>>

update_alb_listeners_to_support_ipv6 == listeners_modify \/ listeners_return

\* lines 66-67: list the load balancers of the region.
region_begin(region, caller) ==
    /\ pc' = "region_loop"
    /\ loc' = [exc |-> "", ret |-> None, caller |-> caller,
               region |-> region, albs |-> albs, a |-> 0]

\* lines 69-74: enable_ipv6_for_alb on the next load balancer.
region_alb ==
    /\ pc = "region_loop"
    /\ loc.a < Len(loc.albs)
    /\ alb_begin(loc.albs[loc.a + 1].LoadBalancerArn,
                 [pc |-> "region_loop", frame |-> [loc EXCEPT !.a = @ + 1]])
    /\ UNCHANGED <<calls, runs, cloud>>

region_return ==
    /\ pc = "region_loop"
    /\ loc.a >= Len(loc.albs)
    /\ Return(None)
    /\ UNCHANGED <<calls, runs, cloud>>

enable_ipv6_for_all_albs_in_region == region_alb \/ region_return

\* line 91
ec2_regions == <<"us-east-1">>

elb_handler_begin(caller) ==
    /\ pc' = "elb_handler_loop"
    /\ loc' = [exc |-> "", ret |-> None, caller |-> caller, r |-> 0]

\* lines 92-94
elb_handler_region ==
    /\ pc = "elb_handler_loop"
    /\ loc.r < Len(ec2_regions)
    /\ region_begin(ec2_regions[loc.r + 1],
                    [pc |-> "elb_handler_loop", frame |-> [loc EXCEPT !.r = @ + 1]])
    /\ UNCHANGED <<calls, runs, cloud>>

\* line 96
elb_handler_return ==
    /\ pc = "elb_handler_loop"
    /\ loc.r >= Len(ec2_regions)
    /\ Return(None)
    /\ UNCHANGED <<calls, runs, cloud>>

elb_lambda_handler == elb_handler_region \/ elb_handler_return

(***************************************************************************)
(* Specification of elb.py: enable_ipv6_for_alb on one load balancer, or   *)
(* the whole lambda_handler, invoked MaxRuns times at most on a region of  *)
(* one or two load balancers.                                              *)
(***************************************************************************)
MaxListeners == 2

Ipv4 == <<"i", "p", "v", "4">>

DualstackWithoutPublicIpv4 ==
    Dualstack \o <<"-", "w", "i", "t", "h", "o", "u", "t", "-", "p", "u", "b", "l", "i", "c", "-", "i", "p", "v", "4">>

\* The values the provider reports as IpAddressType.
IpAddressTypes == {Ipv4, Dualstack, DualstackWithoutPublicIpv4}

ListenerOf(alb_arn, k) ==
    [ListenerArn |-> <<alb_arn, k>>,
     Port |-> IF k % 2 = 1 THEN 80 ELSE 443,
     Protocol |-> IF k % 2 = 1 THEN "HTTP" ELSE "HTTPS",
     DefaultActions |-> <<[Type |-> "forward", TargetGroupArn |-> <<"tg", k>>]>>]

LoadBalancer(alb_arn, ip_address_type, ready, n) ==
    [LoadBalancerArn |-> alb_arn, IpAddressType |-> ip_address_type,
     SubnetsHaveIpv6 |-> ready,
     Listeners |-> [k \in 1..n |-> ListenerOf(alb_arn, k)]]

InitAlb ==
    /\ pc = "idle"
    /\ loc = TopFrame
    /\ calls = <<>>
    /\ runs = 0
    /\ vpcs = <<>>
    /\ subnets = <<>>
    /\ routeTables = <<>>
    /\ eigws = <<>>
    /\ instances = <<>>
    /\ addrs = <<>>
    /\ \E t1, t2 \in IpAddressTypes, ready \in BOOLEAN, n \in 0..MaxListeners :
          albs \in {<<LoadBalancer("alb-1", t1, ready, n)>>,
                    <<LoadBalancer("alb-1", t1, ready, n),
                      LoadBalancer("alb-2", t2, TRUE, 1)>>}

InvokeAlb ==
    /\ Idle
    /\ runs < MaxRuns
    /\ runs' = runs + 1
    /\ \E a \in 1..Len(albs) : alb_begin(albs[a].LoadBalancerArn, TopCaller)
    /\ UNCHANGED <<calls, cloud>>

InvokeElbHandler ==
    /\ Idle
    /\ runs < MaxRuns
    /\ runs' = runs + 1
    /\ elb_handler_begin(TopCaller)
    /\ UNCHANGED <<calls, cloud>>

NextAlb ==
    \/ InvokeAlb \/ InvokeElbHandler
    \/ enable_ipv6_for_alb \/ update_alb_listeners_to_support_ipv6
    \/ enable_ipv6_for_all_albs_in_region \/ elb_lambda_handler

SpecAlb == InitAlb /\ [][NextAlb]_vars

(***************************************************************************)
(* Properties of the load balancer step (checked under SpecAlb).           *)
(***************************************************************************)
\* The address types that are dual-stack.
AlreadyDualStack(alb) ==
    alb.IpAddressType \in {Dualstack, DualstackWithoutPublicIpv4}

AlbByArn(alb_arn) == albs[CHOOSE a \in 1..Len(albs) : albs[a].LoadBalancerArn = alb_arn]

Issued == IF Len(calls') = Len(calls) + 1 THEN <<calls'[Len(calls')]>> ELSE <<>>

\* enable_ipv6_for_alb on a dual-stack load balancer returns at once with no
\* call; on any other it requests 'dualstack' once and, the request granted,
\* goes on to the listeners.
CheckStep ==
    pc = "alb_check"
        => IF AlreadyDualStack(AlbByArn(loc.alb_arn))
           THEN /\ calls' = calls
                /\ albs' = albs
                /\ pc' = loc.caller.pc
           ELSE /\ Issued # <<>>
                /\ Issued[1].request = [op |-> "set_ip_address_type",
                                        LoadBalancerArn |-> loc.alb_arn,
                                        IpAddressType |-> Dualstack]
                /\ IF Issued[1].result = "ok"
                   THEN /\ pc' = "listeners_loop"
                        /\ loc'.l = 0
                        /\ loc'.listeners = AlbByArn(loc.alb_arn).Listeners
                        /\ loc'.caller.pc = "alb_end"
                   ELSE pc' = "raised" /\ albs' = albs

\* Each listener in turn gets one modify_listener with the port, protocol and
\* default actions it has; then the function returns with no further call.
ListenerStep ==
    pc = "listeners_loop"
        => IF loc.l < Len(loc.listeners)
           THEN /\ Issued # <<>>
                /\ \E k \in 1..Len(AlbByArn(loc.alb_arn).Listeners) :
                      LET listener == AlbByArn(loc.alb_arn).Listeners[k]
                      IN /\ k = loc.l + 1
                         /\ Issued[1] = Ok([op |-> "modify_listener",
                                            ListenerArn |-> listener.ListenerArn,
                                            Port |-> listener.Port,
                                            Protocol |-> listener.Protocol,
                                            DefaultActions |-> listener.DefaultActions])
                /\ loc'.l = loc.l + 1
                /\ pc' = pc
           ELSE calls' = calls /\ pc' = "alb_end"

\* Calls are issued by these two steps only; after the listeners the
\* function returns to its caller.
NoOtherCalls ==
    /\ pc \notin {"alb_check", "listeners_loop"} => calls' = calls
    /\ pc = "alb_end" => pc' = loc.caller.pc

\* No listener changes; an address type changes only to 'dualstack'.
ConfigurationKept ==
    /\ Len(albs') = Len(albs)
    /\ \A a \in 1..Len(albs) :
          /\ albs'[a].Listeners = albs[a].Listeners
          /\ albs'[a].LoadBalancerArn = albs[a].LoadBalancerArn
          /\ albs'[a].IpAddressType # albs[a].IpAddressType
                => /\ albs'[a].IpAddressType = Dualstack
                   /\ ~AlreadyDualStack(albs[a])
                   /\ Issued = <<Ok(SetIpAddressTypeCall(albs[a].LoadBalancerArn))>>

GrantedSetCalls(alb_arn) ==
    {c \in 1..Len(calls) : calls[c] = Ok(SetIpAddressTypeCall(alb_arn))}

ModifyCalls(listener_arn) ==
    {c \in 1..Len(calls) :
        /\ calls[c].request.op = "modify_listener"
        /\ calls[c].request.ListenerArn = listener_arn}

\* Over all invocations a load balancer is switched at most once and each
\* listener is modified once if it was switched, else never: an invocation
\* after the one that switched it issues nothing.
SecondInvocationNoOp ==
    \A a \in 1..Len(albs) :
        LET alb_arn == albs[a].LoadBalancerArn
        IN /\ Cardinality(GrantedSetCalls(alb_arn)) <= 1
           /\ GrantedSetCalls(alb_arn) # {} => AlreadyDualStack(albs[a])
           /\ \A k \in 1..Len(albs[a].Listeners) :
                 LET modified == ModifyCalls(albs[a].Listeners[k].ListenerArn)
                 IN /\ Cardinality(modified) <= Cardinality(GrantedSetCalls(alb_arn))
                    /\ \A c \in modified : \E d \in GrantedSetCalls(alb_arn) : d < c
                    /\ Idle => Cardinality(modified) = Cardinality(GrantedSetCalls(alb_arn))

\* C9: enable_ipv6_for_alb issues nothing for a dual-stack load balancer;
\* for any other it issues one set_ip_address_type to 'dualstack' and then
\* one modify_listener per listener with the listener's own port, protocol
\* and default actions; listeners never change and a second invocation
\* issues nothing.
C9_AlbDualStack ==
    /\ [][CheckStep /\ ListenerStep /\ NoOtherCalls /\ ConfigurationKept]_vars
    /\ []SecondInvocationNoOp

\* alb-1 was ipv4 with two listeners; two invocations have returned and the
\* second added no call to the three of the first.
C9_Witness ==
    /\ pc = "returned"
    /\ runs = 2
    /\ Len(albs) = 1
    /\ Len(albs[1].Listeners) = 2
    /\ Len(calls) = 3
    /\ calls[1] = Ok(SetIpAddressTypeCall("alb-1"))
    /\ calls[2].request.op = "modify_listener"
    /\ calls[3].request.op = "modify_listener"
    /\ calls[2].request.ListenerArn # calls[3].request.ListenerArn

====
